---- MODULE Spec2Model ----
(***************************************************************************)
(* State-machine model of pray, a terminal file browser that collects the  *)
(* contents of selected files into the clipboard and keeps the exported    *)
(* file sets as named collections (src/src/app.rs, src/src/main.rs).       *)
(*                                                                         *)
(* The variable app is the App struct of app.rs; fs is the directory tree  *)
(* the program browses, which other processes may change at any time.      *)
(* One step of the model is one iteration of the event loop of run_app:    *)
(* the handler of the key that was read, followed by the tick of the       *)
(* footer message, or an external change of the directory tree.            *)
(***************************************************************************)
EXTENDS Integers, Sequences, FiniteSets, TLC

VARIABLES
    app,    \* the App struct, plus the persisted store and the exit status
    fs,     \* the set of paths that exist in the directory tree
    hist,   \* history: the navigation state saved before each descend in effect
    edits   \* history: the number of edits made to rename buffers so far

vars == <<app, fs, hist, edits>>

----------------------------------------------------------------------------
(* Bounds of the model.                                                    *)

\* Paths are 0..MaxPath; 0 is the launch directory.
MaxPath == 4
\* No export is started when the store already holds this many collections.
MaxCollections == 2
\* The user edits rename buffers at most this many times in all.
MaxEdits == 2
\* Paths are 0..MaxFramePath in the specification that has every kind of command.
MaxFramePath == 2
\* Paths are 0..MaxExportPath in the specification of the export of selections.
MaxExportPath == 5

----------------------------------------------------------------------------
(* The directory tree.  Path 0 is the directory the program is launched    *)
(* in.  Every directory d has two possible children: the file d+1 and the  *)
(* directory d+2, so that the numeric order of paths is the order of       *)
(* PathBuf (a child sorts after its parent, the file d+1 before the        *)
(* directory d+2 and everything beneath it).                               *)

Root == 0

Paths == 0..MaxPath

Parent(p) == IF p % 2 = 0 THEN p - 2 ELSE p - 1

KindIsDir(p) == p % 2 = 0

\* A tree: the launch directory exists, and so does the parent of every path.
ValidFs(S) == /\ Root \in S
              /\ \A p \in S \ {Root} : Parent(p) \in S

\* Path::is_dir and Path::is_file, queried live.
is_dir(p) == p \in fs /\ KindIsDir(p)

is_file(p) == p \in fs /\ ~KindIsDir(p)

\* The entries fs::read_dir yields for an existing directory, in no order.
read_dir(d) == {p \in fs : p # Root /\ Parent(p) = d}

\* Vec::sort on paths: the ascending sequence of a set of paths.
RECURSIVE SortPaths(_)
SortPaths(S) ==
    IF S = {} THEN <<>>
    ELSE LET m == CHOOSE x \in S : \A y \in S : x <= y
         IN <<m>> \o SortPaths(S \ {m})

\* The elements of a sequence.
Range(s) == {s[i] : i \in 1..Len(s)}

\* Vec::remove: the sequence without its element at 0-based position i.
RemoveAt(s, i) == SubSeq(s, 1, i) \o SubSeq(s, i + 2, Len(s))

\* The program aborts: an index out of range, or an unwrap() on an error.
IndexPanic(a) == [a EXCEPT !.exit = "index out of range"]

UnwrapPanic(a) == [a EXCEPT !.exit = "unwrap on an error"]

Panicked(a) == a.exit \in {"index out of range", "unwrap on an error"}

----------------------------------------------------------------------------
(* Navigation (app.rs, read_directory .. go_back).                         *)

\* fs::read_dir(path).unwrap() succeeds exactly on an existing directory.
read_directory_ok(path) == is_dir(path)

read_directory(path) == SortPaths(read_dir(path))

\* An enter_directory that saves no frame when it leaves the launch directory.
enter_directory_no_root_frame(a) ==
    IF a.directory_entries = <<>> THEN a
    ELSE IF a.selected_file_index >= Len(a.directory_entries) THEN IndexPanic(a)
    ELSE LET selected_path == a.directory_entries[a.selected_file_index + 1]
         IN IF ~is_dir(selected_path) THEN a
            ELSE [a EXCEPT
                     !.navigation_stack =
                         IF a.current_dir = Root THEN @
                         ELSE Append(@, [dir |-> a.current_dir,
                                         index |-> a.selected_file_index]),
                     !.current_dir = selected_path,
                     !.directory_entries = read_directory(selected_path),
                     !.selected_file_index = 0]

enter_directory(a) ==
    IF a.directory_entries = <<>> THEN a
    ELSE IF a.selected_file_index >= Len(a.directory_entries) THEN IndexPanic(a)
    ELSE LET selected_path == a.directory_entries[a.selected_file_index + 1]
             pushed == [a EXCEPT
                 !.navigation_stack =
                     Append(@, [dir |-> a.current_dir, index |-> a.selected_file_index]),
                 !.current_dir = selected_path]
         IN IF ~is_dir(selected_path) THEN a
            ELSE IF ~read_directory_ok(selected_path) THEN UnwrapPanic(pushed)
            ELSE [pushed EXCEPT
                     !.directory_entries = read_directory(selected_path),
                     !.selected_file_index = 0]

\* A go_back that restores the directory but not the cursor.
go_back_cursor_reset(a) ==
    IF a.navigation_stack = <<>> THEN a
    ELSE LET n == Len(a.navigation_stack)
             previous == a.navigation_stack[n]
         IN IF ~read_directory_ok(previous.dir) THEN UnwrapPanic(a)
            ELSE [a EXCEPT
                     !.navigation_stack = SubSeq(@, 1, n - 1),
                     !.current_dir = previous.dir,
                     !.directory_entries = read_directory(previous.dir),
                     !.selected_file_index = 0]

go_back(a) ==
    IF a.navigation_stack = <<>> THEN a
    ELSE LET n == Len(a.navigation_stack)
             previous == a.navigation_stack[n]
             popped == [a EXCEPT
                 !.navigation_stack = SubSeq(@, 1, n - 1),
                 !.current_dir = previous.dir]
         IN IF ~read_directory_ok(previous.dir) THEN UnwrapPanic(popped)
            ELSE [popped EXCEPT
                     !.directory_entries = read_directory(previous.dir),
                     !.selected_file_index = previous.index]

\* FilesPane j / Down and k / Up (main.rs).
files_down(a) ==
    IF a.selected_file_index + 1 < Len(a.directory_entries)
    THEN [a EXCEPT !.selected_file_index = @ + 1]
    ELSE a

files_up(a) ==
    IF a.selected_file_index > 0
    THEN [a EXCEPT !.selected_file_index = @ - 1]
    ELSE a

----------------------------------------------------------------------------
(* The selection set (app.rs, toggle_selection .. toggle_select_all).      *)

toggle_selection(a) ==
    IF a.selected_file_index < Len(a.directory_entries)
    THEN LET selected_path == a.directory_entries[a.selected_file_index + 1]
         IN IF selected_path \in a.selected_items
            THEN [a EXCEPT !.selected_items = @ \ {selected_path}]
            ELSE [a EXCEPT !.selected_items = @ \cup {selected_path}]
    ELSE a

is_current_dir_all_selected(a) ==
    \A i \in 1..Len(a.directory_entries) : a.directory_entries[i] \in a.selected_items

\* A select-all that toggles the whole selection instead of the listing's part.
toggle_select_all_global(a) ==
    LET current_all_selected == is_current_dir_all_selected(a)
    IN [a EXCEPT
           !.selected_items = IF ~current_all_selected
                              THEN Range(a.directory_entries)
                              ELSE {},
           !.all_selected = ~current_all_selected]

\* A select-all that deselects the listing whenever one of its entries is selected.
toggle_select_all_any(a) ==
    LET any_selected == \E i \in 1..Len(a.directory_entries) :
                            a.directory_entries[i] \in a.selected_items
        retained == {item \in a.selected_items : item \notin Range(a.directory_entries)}
    IN [a EXCEPT
           !.selected_items = IF ~any_selected
                              THEN retained \cup Range(a.directory_entries)
                              ELSE retained,
           !.all_selected = ~any_selected]

toggle_select_all(a) ==
    LET current_all_selected == is_current_dir_all_selected(a)
        retained == {item \in a.selected_items : item \notin Range(a.directory_entries)}
    IN [a EXCEPT
           !.selected_items = IF ~current_all_selected
                              THEN retained \cup Range(a.directory_entries)
                              ELSE retained,
           !.all_selected = ~current_all_selected]

----------------------------------------------------------------------------
(* Expansion of the selection into files (app.rs, get_all_files_in_dir and *)
(* the first loop of copy_selected_items_to_clipboard).  A HashSet and     *)
(* fs::read_dir iterate in an unspecified order, so the expansion is the   *)
(* set of the file lists that some iteration order produces.               *)

\* The orders in which a set can be iterated.
RECURSIVE Orders(_)
Orders(S) ==
    IF S = {} THEN {<<>>}
    ELSE UNION {{<<x>> \o o : o \in Orders(S \ {x})} : x \in S}

RECURSIVE files_of_items(_)
RECURSIVE get_all_files_in_dir(_)

\* The loop body shared by both loops: push a file, extend by a directory.
files_of_item(item) ==
    IF is_file(item) THEN {<<item>>}
    ELSE IF is_dir(item) THEN get_all_files_in_dir(item)
    ELSE {<<>>}

files_of_items(order) ==
    IF order = <<>> THEN {<<>>}
    ELSE {x \o y : x \in files_of_item(Head(order)), y \in files_of_items(Tail(order))}

\* A get_all_files_in_dir that does not look into subdirectories.
get_all_files_in_dir_shallow(dir) ==
    IF ~is_dir(dir) THEN {<<>>}
    ELSE UNION {files_of_items(o) : o \in Orders({p \in read_dir(dir) : is_file(p)})}

get_all_files_in_dir(dir) ==
    IF ~is_dir(dir) THEN {<<>>}
    ELSE UNION {files_of_items(o) : o \in Orders(read_dir(dir))}

collect_all_files(selected_items) ==
    UNION {files_of_items(o) : o \in Orders(selected_items)}

----------------------------------------------------------------------------
(* The payload (app.rs, the second loop of copy_selected_items_to_clipboard *)
(* and the loop of copy_selected_collection_to_clipboard).  A text is the   *)
(* sequence of its pieces; readable is the set of files that File::open     *)
(* opens and read_to_string decodes.                                        *)

\* The components of a path, from the launch directory down.
RECURSIVE components(_)
components(p) == IF p = Root THEN <<Root>> ELSE Append(components(Parent(p)), p)

\* Path::strip_prefix(base): the components after those of base, when the
\* path starts with them.
strip_prefix_ok(item, base) ==
    /\ Len(components(base)) <= Len(components(item))
    /\ SubSeq(components(item), 1, Len(components(base))) = components(base)

strip_prefix(item, base) ==
    SubSeq(components(item), Len(components(base)) + 1, Len(components(item)))

\* Path::display: an absolute path starts with the separator, a relative
\* one with its first component.
RECURSIVE display_relative(_)
display_relative(cs) ==
    IF cs = <<>> THEN <<>>
    ELSE IF Len(cs) = 1 THEN <<ToString(cs[1])>>
    ELSE <<ToString(cs[1]), "/">> \o display_relative(Tail(cs))

display_absolute(cs) == <<"/">> \o display_relative(cs)

\* item.strip_prefix(&self.base_dir).unwrap_or(item), displayed.
relative_path(item, base_dir) ==
    IF strip_prefix_ok(item, base_dir)
    THEN display_relative(strip_prefix(item, base_dir))
    ELSE display_absolute(components(item))

\* What read_to_string yields for a file.
contents_of(item) == <<"contents of ", ToString(item)>>

\* The fence marker: six grave accents.
fence == "fence of six grave accents"

\* The four push_str of one file.
file_block(item, base_dir) ==
    <<"------ ">> \o relative_path(item, base_dir) \o <<" ------\n">>
        \o <<fence, "\n">> \o contents_of(item) \o <<"\n", fence, "\n">>

\* An output loop that gives up at the first file it cannot read.
RECURSIVE selection_output_stops(_, _, _)
selection_output_stops(all_files, base_dir, readable) ==
    IF all_files = <<>> THEN <<>>
    ELSE IF Head(all_files) \in readable
    THEN file_block(Head(all_files), base_dir)
             \o selection_output_stops(Tail(all_files), base_dir, readable)
    ELSE <<>>

\* output of copy_selected_items_to_clipboard.
RECURSIVE selection_output(_, _, _)
selection_output(all_files, base_dir, readable) ==
    IF all_files = <<>> THEN <<>>
    ELSE (IF Head(all_files) \in readable
          THEN file_block(Head(all_files), base_dir)
          ELSE <<>>)
             \o selection_output(Tail(all_files), base_dir, readable)

\* output of copy_selected_collection_to_clipboard, which asks is_file first.
RECURSIVE collection_output(_, _, _)
collection_output(files, base_dir, readable) ==
    IF files = <<>> THEN <<>>
    ELSE (IF is_file(Head(files)) /\ Head(files) \in readable
          THEN file_block(Head(files), base_dir)
          ELSE <<>>)
             \o collection_output(Tail(files), base_dir, readable)

----------------------------------------------------------------------------
(* Collections (app.rs, copy_selected_items_to_clipboard .. cancel_rename).*)

MessageCycles == 5

\* usize to decimal digits, as format!("{}") prints it.
RECURSIVE Decimal(_)
Decimal(n) ==
    LET d == <<"0", "1", "2", "3", "4", "5", "6", "7", "8", "9">>[(n % 10) + 1]
    IN IF n < 10 THEN <<d>> ELSE Decimal(n \div 10) \o <<d>>

\* format!("Collection {}", n): a name is its sequence of characters.
collection_name(n) ==
    <<"C", "o", "l", "l", "e", "c", "t", "i", "o", "n", " ">> \o Decimal(n)

\* The whole list replaces the contents of the collections file.
save_collections(a) == [a EXCEPT !.store = a.collections]

\* all_files is the list the first loop collected; clipboard_ok tells whether
\* the clipboard accepts the payload (both unwrap()s succeed).
\* An export that numbers the new collection by the collections before it.
copy_selected_items_to_clipboard_count(a, all_files, clipboard_ok) ==
    IF ~clipboard_ok THEN UnwrapPanic(a)
    ELSE LET collection == [name |-> collection_name(Len(a.collections)),
                            files |-> all_files,
                            num_files |-> Len(all_files)]
             notified == [a EXCEPT
                 !.footer_message = <<"Copied to clipboard!">>,
                 !.message_counter = MessageCycles,
                 !.collections = Append(@, collection)]
         IN [save_collections(notified) EXCEPT
                !.selected_items = {},
                !.all_selected = FALSE]

\* An export that gives every new collection the name of a first one.
copy_selected_items_to_clipboard_first(a, all_files, clipboard_ok) ==
    IF ~clipboard_ok THEN UnwrapPanic(a)
    ELSE LET collection == [name |-> collection_name(1),
                            files |-> all_files,
                            num_files |-> Len(all_files)]
             notified == [a EXCEPT
                 !.footer_message = <<"Copied to clipboard!">>,
                 !.message_counter = MessageCycles,
                 !.collections = Append(@, collection)]
         IN [save_collections(notified) EXCEPT
                !.selected_items = {},
                !.all_selected = FALSE]

\* An export that clears the selection but not the all_selected flag.
copy_selected_items_to_clipboard_flag(a, all_files, clipboard_ok) ==
    IF ~clipboard_ok THEN UnwrapPanic(a)
    ELSE LET collection == [name |-> collection_name(Len(a.collections) + 1),
                            files |-> all_files,
                            num_files |-> Len(all_files)]
             notified == [a EXCEPT
                 !.footer_message = <<"Copied to clipboard!">>,
                 !.message_counter = MessageCycles,
                 !.collections = Append(@, collection)]
         IN [save_collections(notified) EXCEPT !.selected_items = {}]

copy_selected_items_to_clipboard(a, all_files, clipboard_ok) ==
    IF ~clipboard_ok THEN UnwrapPanic(a)
    ELSE LET collection == [name |-> collection_name(Len(a.collections) + 1),
                            files |-> all_files,
                            num_files |-> Len(all_files)]
             notified == [a EXCEPT
                 !.footer_message = <<"Copied to clipboard!">>,
                 !.message_counter = MessageCycles,
                 !.collections = Append(@, collection)]
         IN [save_collections(notified) EXCEPT
                !.selected_items = {},
                !.all_selected = FALSE]

\* A decrement_message_counter that never clears the message.
decrement_message_counter_keeps(a) ==
    IF a.message_counter > 0
    THEN [a EXCEPT !.message_counter = @ - 1]
    ELSE a

decrement_message_counter(a) ==
    IF a.message_counter > 0
    THEN [a EXCEPT
             !.message_counter = @ - 1,
             !.footer_message = IF a.message_counter - 1 = 0 THEN <<>> ELSE @]
    ELSE a

\* A remove_selected_collection that leaves the cursor where it was.
remove_selected_collection_unclamped(a) ==
    IF a.collections = <<>> THEN a
    ELSE IF a.selected_collection_index >= Len(a.collections) THEN IndexPanic(a)
    ELSE save_collections([a EXCEPT
             !.collections = RemoveAt(@, a.selected_collection_index)])

\* A remove_selected_collection that does not write the collections file.
remove_selected_collection_unsaved(a) ==
    IF a.collections = <<>> THEN a
    ELSE IF a.selected_collection_index >= Len(a.collections) THEN IndexPanic(a)
    ELSE LET removed == RemoveAt(a.collections, a.selected_collection_index)
         IN [a EXCEPT
                !.collections = removed,
                !.selected_collection_index =
                    IF @ >= Len(removed) /\ @ > 0 THEN @ - 1 ELSE @]

remove_selected_collection(a) ==
    IF a.collections = <<>> THEN a
    ELSE IF a.selected_collection_index >= Len(a.collections) THEN IndexPanic(a)
    ELSE LET removed == RemoveAt(a.collections, a.selected_collection_index)
         IN save_collections([a EXCEPT
                !.collections = removed,
                !.selected_collection_index =
                    IF @ >= Len(removed) /\ @ > 0 THEN @ - 1 ELSE @])

\* An export of a collection that clears the selection as the export of
\* the selection does.
copy_selected_collection_to_clipboard_clears(a, clipboard_ok) ==
    IF a.collections = <<>> THEN a
    ELSE IF a.selected_collection_index >= Len(a.collections) THEN IndexPanic(a)
    ELSE IF ~clipboard_ok THEN UnwrapPanic(a)
    ELSE [a EXCEPT
             !.footer_message = <<"Collection copied to clipboard!">>,
             !.message_counter = MessageCycles,
             !.selected_items = {},
             !.all_selected = FALSE]

copy_selected_collection_to_clipboard(a, clipboard_ok) ==
    IF a.collections = <<>> THEN a
    ELSE IF a.selected_collection_index >= Len(a.collections) THEN IndexPanic(a)
    ELSE IF ~clipboard_ok THEN UnwrapPanic(a)
    ELSE [a EXCEPT
             !.footer_message = <<"Collection copied to clipboard!">>,
             !.message_counter = MessageCycles]

\* An unselect_file_from_collection that also drops the file from the selection.
unselect_file_from_collection_live(a) ==
    IF a.collections = <<>> THEN a
    ELSE IF a.selected_collection_index >= Len(a.collections) THEN IndexPanic(a)
    ELSE LET ci == a.selected_collection_index + 1
             collection == a.collections[ci]
         IN IF a.selected_file_in_collection_index < Len(collection.files)
            THEN LET files == RemoveAt(collection.files, a.selected_file_in_collection_index)
                 IN save_collections([a EXCEPT
                        !.collections[ci].files = files,
                        !.collections[ci].num_files = Len(files),
                        !.selected_items =
                            @ \ {collection.files[a.selected_file_in_collection_index + 1]},
                        !.selected_file_in_collection_index =
                            IF @ >= Len(files) /\ @ > 0 THEN @ - 1 ELSE @])
            ELSE a

unselect_file_from_collection(a) ==
    IF a.collections = <<>> THEN a
    ELSE IF a.selected_collection_index >= Len(a.collections) THEN IndexPanic(a)
    ELSE LET ci == a.selected_collection_index + 1
             collection == a.collections[ci]
         IN IF a.selected_file_in_collection_index < Len(collection.files)
            THEN LET files == RemoveAt(collection.files, a.selected_file_in_collection_index)
                 IN save_collections([a EXCEPT
                        !.collections[ci].files = files,
                        !.collections[ci].num_files = Len(files),
                        !.selected_file_in_collection_index =
                            IF @ >= Len(files) /\ @ > 0 THEN @ - 1 ELSE @])
            ELSE a

start_rename(a) ==
    IF a.collections = <<>> THEN a
    ELSE IF a.selected_collection_index >= Len(a.collections) THEN IndexPanic(a)
    ELSE [a EXCEPT
             !.renaming_collection = TRUE,
             !.new_collection_name = a.collections[a.selected_collection_index + 1].name]

\* A confirm_rename that renames the first collection of the store.
confirm_rename_first(a) ==
    IF a.collections = <<>> \/ ~a.renaming_collection THEN a
    ELSE IF a.selected_collection_index >= Len(a.collections) THEN IndexPanic(a)
    ELSE LET renamed == save_collections([a EXCEPT
                 !.collections[1].name = a.new_collection_name])
         IN [renamed EXCEPT
                !.renaming_collection = FALSE,
                !.new_collection_name = <<>>,
                !.footer_message = <<"Collection renamed!">>,
                !.message_counter = MessageCycles]

confirm_rename(a) ==
    IF a.collections = <<>> \/ ~a.renaming_collection THEN a
    ELSE IF a.selected_collection_index >= Len(a.collections) THEN IndexPanic(a)
    ELSE LET renamed == save_collections([a EXCEPT
                 !.collections[a.selected_collection_index + 1].name =
                     a.new_collection_name])
         IN [renamed EXCEPT
                !.renaming_collection = FALSE,
                !.new_collection_name = <<>>,
                !.footer_message = <<"Collection renamed!">>,
                !.message_counter = MessageCycles]

\* A cancel_rename that writes the collections file.
cancel_rename_saving(a) ==
    IF a.renaming_collection
    THEN save_collections([a EXCEPT
             !.renaming_collection = FALSE,
             !.new_collection_name = <<>>,
             !.footer_message = <<"Rename canceled.">>,
             !.message_counter = MessageCycles])
    ELSE a

cancel_rename(a) ==
    IF a.renaming_collection
    THEN [a EXCEPT
             !.renaming_collection = FALSE,
             !.new_collection_name = <<>>,
             !.footer_message = <<"Rename canceled.">>,
             !.message_counter = MessageCycles]
    ELSE a

----------------------------------------------------------------------------
(* The event loop (main.rs, run_app).  A key is the KeyCode that was read. *)

CharKeys == {"j", "k", "h", "l", " ", "a", "c", "d", "r", "1", "2", "3", "?", "q", "x"}

Keys == CharKeys \cup {"Down", "Up", "Enter", "Esc", "Backspace"}

\* A rename mode in which the keys 1, 2 and 3 still switch the pane.
rename_key_panes(a, key) ==
    IF key = "1" THEN [a EXCEPT !.focused_pane = "FilesPane"]
    ELSE IF key = "2" THEN [a EXCEPT !.focused_pane = "CollectionsPane"]
    ELSE IF key = "3" THEN [a EXCEPT !.focused_pane = "SelectedFilesPane"]
    ELSE IF key \in CharKeys THEN [a EXCEPT !.new_collection_name = Append(@, key)]
    ELSE IF key = "Backspace"
    THEN [a EXCEPT !.new_collection_name =
             IF @ = <<>> THEN @ ELSE SubSeq(@, 1, Len(@) - 1)]
    ELSE IF key = "Enter" THEN confirm_rename(a)
    ELSE IF key = "Esc" THEN cancel_rename(a)
    ELSE a

\* Rename mode: the key edits the buffer, confirms or cancels.
rename_key(a, key) ==
    IF key \in CharKeys THEN [a EXCEPT !.new_collection_name = Append(@, key)]
    ELSE IF key = "Backspace"
    THEN [a EXCEPT !.new_collection_name =
             IF @ = <<>> THEN @ ELSE SubSeq(@, 1, Len(@) - 1)]
    ELSE IF key = "Enter" THEN confirm_rename(a)
    ELSE IF key = "Esc" THEN cancel_rename(a)
    ELSE a

files_pane_key(a, key, all_files, clipboard_ok) ==
    IF key \in {"j", "Down"} THEN files_down(a)
    ELSE IF key \in {"k", "Up"} THEN files_up(a)
    ELSE IF key = "h" THEN go_back(a)
    ELSE IF key \in {"l", "Enter"} THEN enter_directory(a)
    ELSE IF key = " " THEN toggle_selection(a)
    ELSE IF key = "a" THEN toggle_select_all(a)
    ELSE IF key = "c" THEN copy_selected_items_to_clipboard(a, all_files, clipboard_ok)
    ELSE a

collections_down(a) ==
    IF a.selected_collection_index + 1 < Len(a.collections)
    THEN [a EXCEPT !.selected_collection_index = @ + 1,
                   !.selected_file_in_collection_index = 0]
    ELSE a

collections_up(a) ==
    IF a.selected_collection_index > 0
    THEN [a EXCEPT !.selected_collection_index = @ - 1,
                   !.selected_file_in_collection_index = 0]
    ELSE a

collections_pane_key(a, key, clipboard_ok) ==
    IF key \in {"j", "Down"} THEN collections_down(a)
    ELSE IF key \in {"k", "Up"} THEN collections_up(a)
    ELSE IF key = "d" THEN remove_selected_collection(a)
    ELSE IF key = "c" THEN copy_selected_collection_to_clipboard(a, clipboard_ok)
    ELSE IF key = "r" THEN start_rename(a)
    ELSE a

\* SelectedFilesPane j / Down on a store that is not empty.
selected_files_down(a) ==
    IF a.selected_collection_index >= Len(a.collections) THEN IndexPanic(a)
    ELSE IF a.selected_file_in_collection_index + 1
                < Len(a.collections[a.selected_collection_index + 1].files)
    THEN [a EXCEPT !.selected_file_in_collection_index = @ + 1]
    ELSE a

selected_files_up(a) ==
    IF a.selected_file_in_collection_index > 0
    THEN [a EXCEPT !.selected_file_in_collection_index = @ - 1]
    ELSE a

selected_files_pane_key(a, key) ==
    IF key \in {"j", "Down"} THEN selected_files_down(a)
    ELSE IF key \in {"k", "Up"} THEN selected_files_up(a)
    ELSE IF key = " " THEN unselect_file_from_collection(a)
    ELSE a

\* The match on key.code of normal mode, for every key but q.
key_match(a, key, all_files, clipboard_ok) ==
    IF key = "1" THEN [a EXCEPT !.focused_pane = "FilesPane"]
    ELSE IF key = "2" THEN [a EXCEPT !.focused_pane = "CollectionsPane"]
    ELSE IF key = "3" THEN [a EXCEPT !.focused_pane = "SelectedFilesPane"]
    ELSE IF key = "?" THEN [a EXCEPT !.show_help = TRUE]
    ELSE IF a.focused_pane = "FilesPane"
    THEN files_pane_key(a, key, all_files, clipboard_ok)
    ELSE IF a.focused_pane = "CollectionsPane"
    THEN collections_pane_key(a, key, clipboard_ok)
    ELSE selected_files_pane_key(a, key)

\* The iterations that reach the end of the loop body tick the message; a
\* `continue` starts the next iteration without it, a panic ends the program.
tick(a) == IF Panicked(a) THEN a ELSE decrement_message_counter(a)

\* One iteration of the loop in which the key was read.
run_app(a, key, all_files, clipboard_ok) ==
    IF a.show_help THEN [a EXCEPT !.show_help = FALSE]
    ELSE IF a.renaming_collection THEN rename_key(a, key)
    ELSE IF key = "q" THEN [a EXCEPT !.exit = "quit"]
    ELSE IF /\ a.focused_pane = "SelectedFilesPane"
            /\ key \in {"j", "Down"}
            /\ a.collections = <<>>
    THEN a
    ELSE tick(key_match(a, key, all_files, clipboard_ok))

----------------------------------------------------------------------------
(* The state machine.                                                      *)

\* App::new in a launch directory whose tree is tree, with a collections file
\* that holds stored (the empty list when there is no file).
new(tree, stored) ==
    [current_dir |-> Root,
     directory_entries |-> SortPaths({p \in tree : p # Root /\ Parent(p) = Root}),
     selected_file_index |-> 0,
     selected_collection_index |-> 0,
     selected_file_in_collection_index |-> 0,
     selected_items |-> {},
     base_dir |-> Root,
     navigation_stack |-> <<>>,
     footer_message |-> <<>>,
     message_counter |-> 0,
     all_selected |-> FALSE,
     collections |-> stored,
     focused_pane |-> "FilesPane",
     show_help |-> FALSE,
     renaming_collection |-> FALSE,
     new_collection_name |-> <<>>,
     store |-> stored,
     exit |-> "none"]

\* The program is launched in a directory whose tree is one of trees, with
\* one of stores in its collections file.
Launch(trees, stores) ==
    /\ fs \in trees
    /\ \E stored \in stores : app = new(fs, stored)
    /\ hist = <<>>
    /\ edits = 0

\* The trees made of the paths 0..last.
Trees(last) == {S \in SUBSET (0..last) : ValidFs(S)}

\* No collections file, and the file an earlier run left after it exported
\* the file of the launch directory.
NoStore == <<>>

LeftStore ==
    <<[name |-> collection_name(1), files |-> <<Root + 1>>, num_files |-> 1]>>

\* The file an earlier run left after two exports, the second collection
\* renamed to "x".
RenamedStore ==
    LeftStore \o <<[name |-> <<"x">>, files |-> <<Root + 3>>, num_files |-> 1]>>

Init == Launch(Trees(MaxPath), {NoStore})

\* The history of descends: a step that moves current_dir to one of its
\* children saves the navigation state it leaves, any other move of
\* current_dir drops the last saved state.
history(a, b) ==
    IF b.current_dir = a.current_dir THEN hist
    ELSE IF Parent(b.current_dir) = a.current_dir
    THEN Append(hist, [dir |-> a.current_dir,
                       entries |-> a.directory_entries,
                       index |-> a.selected_file_index])
    ELSE SubSeq(hist, 1, Len(hist) - 1)

\* The characters the user types into a rename buffer.
TypedChars == {"x"}

\* The file lists the export of the selection may collect when key is read:
\* only c in the Files pane reaches that loop.
Collected(a, key) ==
    IF key = "c" /\ a.focused_pane = "FilesPane"
    THEN collect_all_files(a.selected_items)
    ELSE {<<>>}

\* The program is in its event loop.
Waiting == app.exit = "none"

\* The user presses key while the program waits for an event.
Press(key) ==
    /\ app.renaming_collection /\ ~app.show_help /\ key \in CharKeys => key \in TypedChars
    /\ \E all_files \in Collected(app, key), clipboard_ok \in BOOLEAN :
           app' = run_app(app, key, all_files, clipboard_ok)
    /\ hist' = history(app, app')
    /\ edits' = IF /\ app.renaming_collection
                   /\ app'.renaming_collection
                   /\ app'.new_collection_name # app.new_collection_name
                THEN edits + 1 ELSE edits
    /\ edits' <= MaxEdits
    /\ UNCHANGED fs

\* The keys the user presses: no export into a full store, no edit of a
\* rename buffer beyond MaxEdits.
KeyDown == Waiting /\ \E key \in {"j", "Down"} : Press(key)

KeyUp == Waiting /\ \E key \in {"k", "Up"} : Press(key)

KeyBack == Waiting /\ Press("h")

KeyL == Waiting /\ Press("l")

KeyEnter == Waiting /\ Press("Enter")

KeySpace == Waiting /\ Press(" ")

KeyAll == Waiting /\ Press("a")

Copy(limit) ==
    /\ Waiting
    /\ app.focused_pane = "FilesPane" => Len(app.collections) < limit
    /\ Press("c")

KeyCopy == Copy(MaxCollections)

\* The first export of the session.
KeyCopyFirst == Waiting /\ app.collections = <<>> /\ Press("c")

KeyDelete == Waiting /\ Press("d")

KeyRename == Waiting /\ Press("r")

KeyPane == Waiting /\ \E key \in {"1", "2", "3"} : Press(key)

KeyHelp == Waiting /\ Press("?")

KeyQuit == Waiting /\ Press("q")

KeyOther == Waiting /\ Press("x")

KeyBackspace == Waiting /\ Press("Backspace")

KeyEsc == Waiting /\ Press("Esc")

\* poll() times out, or the event is not a key: the iteration only ticks.
Idle ==
    /\ Waiting
    /\ app' = tick(app)
    /\ UNCHANGED <<fs, hist, edits>>

\* Another process creates one of the paths 0..last in an existing directory.
Create(last) ==
    /\ Waiting
    /\ \E p \in (0..last) \ fs : Parent(p) \in fs /\ fs' = fs \cup {p}
    /\ UNCHANGED <<app, hist, edits>>

FsCreate == Create(MaxPath)

\* Another process removes a file or an empty directory.
FsRemove ==
    /\ Waiting
    /\ \E p \in fs \ {Root} : (\A q \in fs : q = Root \/ Parent(q) # p) /\ fs' = fs \ {p}
    /\ UNCHANGED <<app, hist, edits>>

\* The whole program: every key, in a tree that other processes change.
Next ==
    \/ KeyDown \/ KeyUp \/ KeyBack \/ KeyL \/ KeyEnter \/ KeySpace \/ KeyAll \/ KeyCopy
    \/ KeyDelete \/ KeyRename \/ KeyPane \/ KeyHelp \/ KeyQuit \/ KeyOther
    \/ KeyBackspace \/ KeyEsc \/ Idle \/ FsCreate \/ FsRemove

Spec == Init /\ [][Next]_vars

\* Browsing the Files pane of a tree that other processes change.
NextNav ==
    \/ KeyDown \/ KeyUp \/ KeyBack \/ KeyL \/ KeyEnter \/ KeySpace \/ KeyAll
    \/ FsCreate \/ FsRemove

SpecNav == Init /\ [][NextNav]_vars

\* Browsing the Files pane of a tree that does not change.
NextStatic == KeyDown \/ KeyUp \/ KeyBack \/ KeyL \/ KeyEnter \/ KeySpace \/ KeyAll

SpecStatic == Init /\ [][NextStatic]_vars

\* Exporting selections and managing the collections, launched in a
\* directory that holds one directory with one file.
CollTree == {Root, Root + 2, Root + 3}

NextColl ==
    \/ KeyDown \/ KeyUp \/ KeyEnter \/ KeySpace \/ KeyCopy \/ KeyDelete
    \/ KeyRename \/ KeyPane \/ KeyEsc

SpecColl == Launch({CollTree}, {NoStore}) /\ [][NextColl]_vars

\* Every mode and pane, in a small tree that other processes change, with
\* the collections an earlier run left.
NextFrame ==
    \/ KeyDown \/ KeyUp \/ KeyBack \/ KeyL \/ KeyEnter \/ KeySpace \/ KeyAll
    \/ KeyDelete \/ KeyRename \/ KeyPane \/ KeyHelp \/ KeyEsc
    \/ Create(MaxFramePath) \/ FsRemove

SpecFrame ==
    Launch(Trees(MaxFramePath), {NoStore, LeftStore}) /\ [][NextFrame]_vars

\* Renaming and deleting the collections an earlier run left.
NextRename ==
    \/ KeyDown \/ KeyUp \/ KeyDelete \/ KeyRename \/ KeyPane \/ KeyHelp
    \/ KeyOther \/ KeyBackspace \/ KeyEnter \/ KeyEsc \/ Idle

SpecRename == Launch({CollTree}, {NoStore, RenamedStore}) /\ [][NextRename]_vars

\* Selecting on the way down a tree three directories deep, and exporting
\* the selection once.
NextExport == KeyDown \/ KeyUp \/ KeyL \/ KeySpace \/ KeyAll \/ KeyCopyFirst

SpecExport == Launch(Trees(MaxExportPath), {NoStore}) /\ [][NextExport]_vars

----------------------------------------------------------------------------
(* Properties.                                                             *)

\* The key h pressed k times in the Files pane.
RECURSIVE Ascend(_, _)
Ascend(a, k) == IF k = 0 THEN a ELSE Ascend(run_app(a, "h", <<>>, TRUE), k - 1)

\* C1: navigation round trip.  In a tree that does not change, after N
\* descends in effect (and any cursor moves in the directories entered), k
\* go_back steps restore current_dir, directory_entries and
\* selected_file_index to the values they had before the k-th last of these
\* descends, for every k <= N: N go_back steps restore the values from
\* before the first descend.
C1_RoundTrip ==
    \A k \in 1..Len(hist) :
        LET back == Ascend(app, k)
            saved == hist[Len(hist) - k + 1]
        IN /\ back.current_dir = saved.dir
           /\ back.directory_entries = saved.entries
           /\ back.selected_file_index = saved.index

\* Two descends, each after a cursor move to the second entry of its listing.
C1_Witness ==
    /\ Len(hist) = 2
    /\ hist[1].index = 1
    /\ hist[2].index = 1

\* The directory a frame was left for: the next frame's, or current_dir.
EnteredFrom(a, i) ==
    IF i < Len(a.navigation_stack) THEN a.navigation_stack[i + 1].dir ELSE a.current_dir

\* A step leaves the navigation state alone.
SameNavigation(a, b) ==
    /\ b.navigation_stack = a.navigation_stack
    /\ b.current_dir = a.current_dir
    /\ b.selected_file_index = a.selected_file_index

\* C2: the navigation stack is the chain of the descends in effect.  Its
\* length is the number of descends minus the number of ascends that moved
\* current_dir, its first frame is the launch directory, and every frame's
\* directory is the parent from which the next frame's directory (for the
\* top frame, current_dir) was entered.  A descend on an empty listing or
\* on an entry that is not a directory, and an ascend on an empty stack,
\* leave the stack, current_dir and the cursor unchanged.
C2_StackIsChain ==
    LET stack == app.navigation_stack
        descend == run_app(app, "l", <<>>, TRUE)
        ascend == run_app(app, "h", <<>>, TRUE)
    IN /\ Len(stack) = Len(hist)
       /\ \A i \in 1..Len(stack) :
              /\ stack[i].dir = hist[i].dir
              /\ Parent(EnteredFrom(app, i)) = stack[i].dir
       /\ stack # <<>> => stack[1].dir = Root
       /\ stack = <<>> => app.current_dir = Root
       /\ app.directory_entries = <<>> => SameNavigation(app, descend)
       /\ /\ app.selected_file_index < Len(app.directory_entries)
          /\ ~is_dir(app.directory_entries[app.selected_file_index + 1])
          => SameNavigation(app, descend)
       /\ stack = <<>> => SameNavigation(app, ascend)

\* Two descends took effect and the innermost listing is empty.
C2_Witness ==
    /\ Len(app.navigation_stack) = 2
    /\ Len(hist) = 2
    /\ app.directory_entries = <<>>
    /\ app.exit = "none"

\* toggle_select_all called twice.
SelectAllTwice(a) == toggle_select_all(toggle_select_all(a))

\* C3 as stated: toggle_select_all called twice leaves selected_items and
\* all_selected as they were, for every selection and every listing.
C3_Reversible ==
    /\ SelectAllTwice(app).selected_items = app.selected_items
    /\ SelectAllTwice(app).all_selected = app.all_selected

\* C3, amended: when every entry of the current listing is selected, or
\* none is, toggle_select_all called twice leaves selected_items as it was;
\* all_selected is then true exactly when the listing is not empty and
\* every entry of it was selected before the first call.
C3_ReversibleWhenUniform ==
    LET entries == Range(app.directory_entries)
    IN /\ entries \subseteq app.selected_items \/ entries \cap app.selected_items = {}
          => SelectAllTwice(app).selected_items = app.selected_items
       /\ SelectAllTwice(app).all_selected
              = (entries # {} /\ entries \subseteq app.selected_items)

\* Select-all has selected a whole listing of two entries, next to a
\* selection made in another directory.
C3_Witness ==
    /\ app.all_selected
    /\ Len(app.directory_entries) = 2
    /\ Range(app.directory_entries) \subseteq app.selected_items
    /\ app.selected_items \ Range(app.directory_entries) # {}

\* C4: toggle_select_all changes the membership of entries of the current
\* listing only.  When every entry was selected it removes exactly the
\* entries; otherwise the result is the union of the selection and the
\* entries.
C4_SelectAllFrame ==
    LET entries == Range(app.directory_entries)
        after == toggle_select_all(app).selected_items
    IN /\ \A p \in Paths \ entries : p \in after <=> p \in app.selected_items
       /\ after \subseteq Paths
       /\ IF entries \subseteq app.selected_items
          THEN after = app.selected_items \ entries
          ELSE after = app.selected_items \cup entries

\* Select-all has acted, and the listing is now partly selected next to a
\* selection made in another directory.
C4_Witness ==
    /\ app.all_selected
    /\ Range(app.directory_entries) \cap app.selected_items # {}
    /\ Range(app.directory_entries) \ app.selected_items # {}
    /\ app.selected_items \ Range(app.directory_entries) # {}

\* The commands that change the selection: Space, a and c in the Files pane.
ChangesSelection(a, key) ==
    /\ ~a.show_help
    /\ ~a.renaming_collection
    /\ a.focused_pane = "FilesPane"
    /\ key \in {" ", "a", "c"}

\* C5: the selection is independent of navigation.  No iteration of the
\* event loop adds a path to selected_items or removes one, whatever key
\* it reads and whatever the tree has become, unless the key is Space
\* (toggle_selection), a (toggle_select_all) or c (export of the selection)
\* in the Files pane.
C5_SelectionFrame ==
    /\ \A key \in Keys, clipboard_ok \in BOOLEAN :
           \A all_files \in Collected(app, key) :
               run_app(app, key, all_files, clipboard_ok).selected_items
                       # app.selected_items
                   => ChangesSelection(app, key)
    /\ tick(app).selected_items = app.selected_items

\* An entry selected in the launch directory is still selected after a
\* descend and the ascend that re-listed a launch directory which had
\* changed, with a collection in the store.
C5_Witness ==
    /\ app.current_dir = Root
    /\ app.selected_file_index >= Len(app.directory_entries)
    /\ app.selected_items # {}
    /\ app.collections # <<>>

\* C6: the Files cursor is in range whenever the listing is not empty.
C6_CursorInRange ==
    app.directory_entries # <<>>
        => app.selected_file_index < Len(app.directory_entries)

\* C7: enter_directory changes nothing when the cursor is out of range,
\* the listing is empty or the entry under the cursor is not a directory,
\* and no command aborts on an index out of range.
C7_DescendSafe ==
    /\ \/ app.directory_entries = <<>>
       \/ app.selected_file_index >= Len(app.directory_entries)
       \/ ~is_dir(app.directory_entries[app.selected_file_index + 1])
       => enter_directory(app) = app
    /\ app.exit # "index out of range"

\* C8: the collection cursor is in range whenever the store is not empty.
\* remove_selected_collection removes exactly the collection at the cursor
\* and keeps the order of the others; when that collection was the last
\* one the cursor becomes max(0, new length - 1); on an empty store it
\* changes nothing.
C8_CollectionCursor ==
    LET before == app.collections
        index == app.selected_collection_index
        removed == remove_selected_collection(app)
        after == removed.collections
    IN /\ before # <<>> => index < Len(before)
       /\ before = <<>> => removed = app
       /\ before # <<>> =>
              /\ Len(after) = Len(before) - 1
              /\ \A i \in 1..Len(after) :
                     after[i] = IF i <= index THEN before[i] ELSE before[i + 1]
              /\ index = Len(before) - 1 =>
                     removed.selected_collection_index
                         = IF Len(after) = 0 THEN 0 ELSE Len(after) - 1
              /\ after # <<>> => removed.selected_collection_index < Len(after)
              /\ removed.exit = app.exit

\* The last of two collections is the selected one, after the first one
\* was deleted and a new one exported.
C8_Witness ==
    /\ Len(app.collections) = 2
    /\ app.selected_collection_index = 1
    /\ app.collections[1].name = collection_name(2)
    /\ app.focused_pane = "CollectionsPane"

\* C9: after unselect_file_from_collection the selected collection has
\* num_files = len(files) and the cursor into its files is in range when
\* it has files; a removal takes exactly the file at that cursor and keeps
\* the order of the others.
C9_RemoveMember ==
    app.collections # <<>> /\ app.selected_collection_index < Len(app.collections) =>
        LET ci == app.selected_collection_index + 1
            index == app.selected_file_in_collection_index
            before == app.collections[ci].files
            removed == unselect_file_from_collection(app)
            after == removed.collections[ci].files
        IN /\ removed.collections[ci].num_files = Len(after)
           /\ after # <<>> => removed.selected_file_in_collection_index < Len(after)
           /\ after # before =>
                  /\ Len(after) = Len(before) - 1
                  /\ \A i \in 1..Len(after) :
                         after[i] = IF i <= index THEN before[i] ELSE before[i + 1]

\* The keys that move the collection cursor, and the one that deletes.
MovesCollectionCursor(a, key) ==
    /\ ~a.show_help
    /\ ~a.renaming_collection
    /\ a.focused_pane = "CollectionsPane"
    /\ key \in {"j", "k", "Down", "Up", "d"}

\* C10: the cursor into the files of the selected collection is 0 after
\* every command that selects another collection (a move of the collection
\* cursor, or the deletion of the selected collection when a neighbour
\* takes its place), and it is in range whenever the selected collection
\* has files.
C10_FileCursorReset ==
    /\ \A key \in {"j", "k", "Down", "Up", "d"} :
           LET after == run_app(app, key, <<>>, TRUE)
           IN /\ MovesCollectionCursor(app, key)
              /\ after.collections # <<>>
              /\ \/ after.selected_collection_index # app.selected_collection_index
                 \/ after.collections # app.collections
              => after.selected_file_in_collection_index = 0
    /\ /\ app.collections # <<>>
       /\ app.selected_collection_index < Len(app.collections)
       => LET files == app.collections[app.selected_collection_index + 1].files
          IN files # <<>> => app.selected_file_in_collection_index < Len(files)

----------------------------------------------------------------------------
(* Renaming (C11 .. C13).                                                  *)

\* The keys of an edit sequence: characters, two of them commands outside
\* rename mode, and Backspace.
EditKeys == {"x", "q", "Backspace"}

\* The edit sequences of at most MaxEdits keys.
EditSequences == UNION {[1..n -> EditKeys] : n \in 0..MaxEdits}

\* The keys of a sequence pressed one after the other.
RECURSIVE Type(_, _)
Type(a, keys) ==
    IF keys = <<>> THEN a
    ELSE Type(run_app(a, Head(keys), <<>>, TRUE), Tail(keys))

\* A name with an edit sequence applied in order: a character is appended,
\* Backspace deletes the last character and does nothing on an empty name.
RECURSIVE Edited(_, _)
Edited(name, keys) ==
    IF keys = <<>> THEN name
    ELSE IF Head(keys) = "Backspace"
    THEN Edited(IF Len(name) = 0 THEN name ELSE SubSeq(name, 1, Len(name) - 1), Tail(keys))
    ELSE Edited(name \o <<Head(keys)>>, Tail(keys))

\* The state a in which another program has overwritten the collections
\* file: a command wrote the file if and only if this content is gone.
ForeignStore(a) ==
    [a EXCEPT !.store = <<[name |-> <<"?">>, files |-> <<>>, num_files |-> 0]>>]

\* The r key starts a rename in this state.
CanStartRename ==
    /\ Waiting
    /\ ~app.show_help
    /\ ~app.renaming_collection
    /\ app.focused_pane = "CollectionsPane"
    /\ app.collections # <<>>

\* C11: rename cancel.  start_rename, then any sequence of character
\* appends and backspaces, then cancel_rename leaves the name, files and
\* count of every collection unchanged, does not write the collections
\* file, leaves rename mode and empties the edit buffer.
C11_RenameCancel ==
    CanStartRename =>
        \A keys \in EditSequences :
            LET started == run_app(ForeignStore(app), "r", <<>>, TRUE)
                cancelled == run_app(Type(started, keys), "Esc", <<>>, TRUE)
            IN /\ started.renaming_collection
               /\ cancelled.collections = app.collections
               /\ cancelled.store = ForeignStore(app).store
               /\ ~cancelled.renaming_collection
               /\ cancelled.new_collection_name = <<>>

\* A rename of the second collection was cancelled after the buffer had
\* been edited.
C11_Witness ==
    /\ app.footer_message = <<"Rename canceled.">>
    /\ edits >= 1
    /\ app.selected_collection_index = 1
    /\ app.collections = RenamedStore
    /\ app.store = RenamedStore

\* C12: rename confirm.  start_rename on the selected collection, then a
\* sequence of edits, then confirm_rename: the name of that collection, in
\* memory and in the collections file, is its original name with the edit
\* sequence applied in order; its files and count, and every other
\* collection, are unchanged, and rename mode is left.
C12_RenameConfirm ==
    CanStartRename =>
        \A keys \in EditSequences :
            LET ci == app.selected_collection_index + 1
                started == run_app(ForeignStore(app), "r", <<>>, TRUE)
                confirmed == run_app(Type(started, keys), "Enter", <<>>, TRUE)
            IN /\ Len(confirmed.collections) = Len(app.collections)
               /\ confirmed.collections[ci].name = Edited(app.collections[ci].name, keys)
               /\ confirmed.collections[ci].files = app.collections[ci].files
               /\ confirmed.collections[ci].num_files = app.collections[ci].num_files
               /\ \A i \in 1..Len(app.collections) :
                      i # ci => confirmed.collections[i] = app.collections[i]
               /\ confirmed.store = confirmed.collections
               /\ ~confirmed.renaming_collection

\* The second collection, named "x", was renamed to the empty name by a
\* Backspace; the first one kept its name.
C12_Witness ==
    /\ app.footer_message = <<"Collection renamed!">>
    /\ Len(app.collections) = 2
    /\ app.collections[2].name = <<>>
    /\ app.collections[1].name = collection_name(1)
    /\ app.store = app.collections
    /\ ~app.renaming_collection

\* The same collections but for their names.
SameButNames(a, b) ==
    /\ Len(b.collections) = Len(a.collections)
    /\ \A i \in 1..Len(a.collections) :
           /\ b.collections[i].files = a.collections[i].files
           /\ b.collections[i].num_files = a.collections[i].num_files

\* What rename mode protects.
SameOutsideRename(a, b) ==
    /\ b.current_dir = a.current_dir
    /\ b.directory_entries = a.directory_entries
    /\ b.navigation_stack = a.navigation_stack
    /\ b.selected_items = a.selected_items
    /\ b.selected_file_index = a.selected_file_index
    /\ b.selected_collection_index = a.selected_collection_index
    /\ b.selected_file_in_collection_index = a.selected_file_in_collection_index
    /\ b.focused_pane = a.focused_pane
    /\ b.show_help = a.show_help
    /\ SameButNames(a, b)

\* C13: modal rename.  Rename mode is entered only by start_rename (r in
\* the Collections pane) on a store that is not empty, and left only by
\* confirm_rename (Enter) or cancel_rename (Esc).  While it lasts, no key
\* changes current_dir, directory_entries, navigation_stack,
\* selected_items, a cursor, the focused pane, show_help, or the number,
\* order, files or counts of the collections: a key other than Enter and
\* Esc changes nothing but the buffer.
C13_ModalRename ==
    /\ \A key \in Keys :
           LET after == run_app(app, key, <<>>, TRUE)
           IN /\ ~app.renaming_collection /\ after.renaming_collection
                 => /\ key = "r"
                    /\ ~app.show_help
                    /\ app.focused_pane = "CollectionsPane"
                    /\ app.collections # <<>>
              /\ app.renaming_collection /\ ~after.renaming_collection
                 => key \in {"Enter", "Esc"}
              /\ app.renaming_collection
                 => /\ SameOutsideRename(app, after)
                    /\ key \notin {"Enter", "Esc"}
                       => after = [app EXCEPT !.new_collection_name
                                                  = after.new_collection_name]
    /\ tick(app).renaming_collection = app.renaming_collection
    /\ app.renaming_collection => app.collections # <<>> /\ ~app.show_help

\* A rename of the collection named "x" is under way and two characters
\* were typed into its buffer.
C13_Witness ==
    /\ app.renaming_collection
    /\ app.new_collection_name = <<"x", "x", "x">>
    /\ app.exit = "none"

----------------------------------------------------------------------------
(* Export (C14 .. C20).                                                    *)

\* Path p lies beneath directory d, at any depth.
RECURSIVE IsUnder(_, _)
IsUnder(p, d) == p # Root /\ (Parent(p) = d \/ IsUnder(Parent(p), d))

\* The regular files beneath directory d.
FilesUnder(d) == {p \in fs : is_file(p) /\ IsUnder(p, d)}

\* The selected files and the files beneath the selected directories.
Expansion(selected_items) ==
    {p \in selected_items : is_file(p)}
        \cup UNION {FilesUnder(d) : d \in {q \in selected_items : is_dir(q)}}

\* "Collection n" for n < 10.
DefaultName(n) ==
    <<"C", "o", "l", "l", "e", "c", "t", "i", "o", "n", " ">>
        \o <<(<<"1", "2", "3", "4", "5", "6", "7", "8", "9">>)[n]>>

\* C14: an export of the selection that the clipboard accepts appends
\* exactly one collection at the end of collections, named "Collection N"
\* with N = 1 + the number of collections before the export; its files are
\* the selected files and all files beneath the selected directories, its
\* num_files is len(files); the collections that existed and the
\* collection cursor are unchanged.
C14_ExportAppends ==
    \A all_files \in collect_all_files(app.selected_items) :
        LET n == Len(app.collections)
            after == copy_selected_items_to_clipboard(app, all_files, TRUE)
            created == after.collections[n + 1]
        IN /\ Len(after.collections) = n + 1
           /\ SubSeq(after.collections, 1, n) = app.collections
           /\ created.name = DefaultName(n + 1)
           /\ Range(created.files) = Expansion(app.selected_items)
           /\ created.num_files = Len(created.files)
           /\ after.selected_collection_index = app.selected_collection_index

\* A selection of the file of the launch directory and of a directory
\* with a file in it was exported as the first collection.
C14_Witness ==
    /\ Len(app.collections) = 1
    /\ app.collections[1].name = DefaultName(1)
    /\ Range(app.collections[1].files) = {Root + 1, Root + 3}
    /\ app.collections[1].num_files = 2
    /\ app.footer_message = <<"Copied to clipboard!">>

\* C15: after every export of the selection that the clipboard accepts,
\* selected_items is empty and all_selected is false, whatever they were.
C15_ExportClears ==
    \A all_files \in collect_all_files(app.selected_items) :
        LET after == copy_selected_items_to_clipboard(app, all_files, TRUE)
        IN /\ after.selected_items = {}
           /\ ~after.all_selected

\* An export has emptied a selection that select-all had made in a
\* directory entered from the launch directory.
C15_Witness ==
    /\ app.footer_message = <<"Copied to clipboard!">>
    /\ app.message_counter = MessageCycles - 1
    /\ app.current_dir = Root + 2
    /\ Range(app.directory_entries) = {Root + 3, Root + 4}
    /\ Range(app.collections[1].files) = FilesUnder(Root + 2)
    /\ app.selected_items = {}
    /\ ~app.all_selected

\* C16: the export of a collection is read-only.  Whether the clipboard
\* accepts the payload or not, copy_selected_collection_to_clipboard leaves
\* the collections, the collections file, selected_items, all_selected,
\* every cursor and the navigation state as they were; when the clipboard
\* accepts, the footer message and its counter are all it changes; on an
\* empty store it changes nothing at all.
C16_CollectionExportReadOnly ==
    \A clipboard_ok \in BOOLEAN :
        LET before == ForeignStore(app)
            after == copy_selected_collection_to_clipboard(before, clipboard_ok)
        IN /\ app.collections = <<>> => after = before
           /\ after.collections = before.collections
           /\ after.store = before.store
           /\ after.selected_items = before.selected_items
           /\ after.all_selected = before.all_selected
           /\ after.selected_file_index = before.selected_file_index
           /\ after.selected_collection_index = before.selected_collection_index
           /\ after.selected_file_in_collection_index
                  = before.selected_file_in_collection_index
           /\ after.current_dir = before.current_dir
           /\ after.directory_entries = before.directory_entries
           /\ after.navigation_stack = before.navigation_stack
           /\ clipboard_ok /\ app.collections # <<>>
              => /\ after.footer_message = <<"Collection copied to clipboard!">>
                 /\ after.message_counter = MessageCycles
                 /\ after = [before EXCEPT
                                !.footer_message = after.footer_message,
                                !.message_counter = after.message_counter]

\* A collection was exported while a selection was pending.
C16_Witness ==
    /\ app.footer_message = <<"Collection copied to clipboard!">>
    /\ app.message_counter = MessageCycles - 1
    /\ app.collections # <<>>
    /\ app.selected_items # {}
    /\ app.store = app.collections
    /\ app.exit = "none"

\* C17 as stated: when the clipboard rejects the payload of an export of
\* the selection, no collection is created, the collections file is not
\* written, the selection and all_selected are kept, no message is set,
\* and the program goes on processing commands.
C17_ClipboardFailure ==
    /\ Waiting
    /\ ~app.show_help
    /\ ~app.renaming_collection
    /\ app.focused_pane = "FilesPane"
    => \A all_files \in collect_all_files(app.selected_items) :
           LET after == run_app(ForeignStore(app), "c", all_files, FALSE)
           IN /\ after.collections = app.collections
              /\ after.store = ForeignStore(app).store
              /\ after.selected_items = app.selected_items
              /\ after.all_selected = app.all_selected
              /\ after.footer_message = app.footer_message
              /\ after.exit = "none"

\* C20: expanding a directory yields exactly the regular files beneath it
\* at any depth: every such file, no directory, and no path twice.
C20_ExpandDirectory ==
    \A dir \in fs :
        is_dir(dir) =>
            \A files \in get_all_files_in_dir(dir) :
                /\ Range(files) = FilesUnder(dir)
                /\ Len(files) = Cardinality(FilesUnder(dir))
                /\ \A i \in 1..Len(files) : ~is_dir(files[i])

\* A directory that holds a file and a subdirectory with a file was
\* selected in the launch directory, next to a file, and exported.
C20_Witness ==
    /\ app.collections # <<>>
    /\ Range(app.collections[1].files) = {Root + 3, Root + 5}
    /\ app.collections[1].num_files = 2
    /\ app.current_dir = Root
    /\ app.directory_entries = <<Root + 1, Root + 2>>

\* C18 as stated: when the directory that go_back is to list cannot be
\* listed, the navigation is abandoned: current_dir, directory_entries,
\* selected_file_index and navigation_stack keep their values and the
\* program goes on.
C18_ListingFailure ==
    LET stack == app.navigation_stack
        back == go_back(app)
    IN /\ Waiting
       /\ stack # <<>>
       /\ ~read_directory_ok(stack[Len(stack)].dir)
       => /\ back.current_dir = app.current_dir
          /\ back.directory_entries = app.directory_entries
          /\ back.selected_file_index = app.selected_file_index
          /\ back.navigation_stack = app.navigation_stack
          /\ back.exit = "none"

\* The commands that mutate the collection list: an export of the
\* selection that the clipboard accepts, the deletion of a collection, the
\* removal of a member, and confirm_rename.
Mutates(a, key, clipboard_ok) ==
    /\ ~a.show_help
    /\ IF a.renaming_collection THEN key = "Enter"
       ELSE \/ a.focused_pane = "FilesPane" /\ key = "c" /\ clipboard_ok
            \/ a.focused_pane = "CollectionsPane" /\ key = "d" /\ a.collections # <<>>
            \/ /\ a.focused_pane = "SelectedFilesPane"
               /\ key = " "
               /\ a.collections # <<>>
               /\ a.selected_file_in_collection_index
                      < Len(a.collections[a.selected_collection_index + 1].files)

\* C19: persistence tracks memory.  A command that mutates the collection
\* list rewrites the collections file, which then equals the collections
\* in memory; every other command leaves the collections and the file as
\* they are.  Hence the file equals the collections in memory after every
\* sequence of commands that starts with a missing or parseable file.
C19_StoreTracksMemory ==
    /\ app.store = app.collections
    /\ tick(ForeignStore(app)).store = ForeignStore(app).store
    /\ \A key \in Keys, clipboard_ok \in BOOLEAN :
           \A all_files \in Collected(app, key) :
               LET before == ForeignStore(app)
                   after == run_app(before, key, all_files, clipboard_ok)
               IN IF Mutates(app, key, clipboard_ok)
                  THEN after.store = after.collections
                  ELSE /\ after.store = before.store
                       /\ after.collections = app.collections

\* The first of two exported collections was deleted and the file of the
\* other was removed from it.
C19_Witness ==
    /\ Len(app.collections) = 1
    /\ app.collections[1].name = DefaultName(2)
    /\ app.collections[1].files = <<>>
    /\ app.store = app.collections
    /\ app.exit = "none"

----------------------------------------------------------------------------
(* Payload, feedback and the remaining export claims (C21 .. C28).         *)

\* The block a payload is to hold for a file: a header with the path
\* relative to base when the file lies beneath base, with the absolute
\* path otherwise, then the contents between two fences.
ExpectedBlock(f, base) ==
    LET below == {i \in 1..Len(components(f)) : IsUnder(components(f)[i], base)}
        name == IF IsUnder(f, base)
                THEN display_relative(SubSeq(components(f),
                                             Len(components(f)) - Cardinality(below) + 1,
                                             Len(components(f))))
                ELSE <<"/">> \o display_relative(components(f))
    IN <<"------ ">> \o name
           \o <<" ------\n", fence, "\n", "contents of ", ToString(f), "\n", fence, "\n">>

\* The payload for a file sequence: the blocks of its readable files, in
\* the order of the sequence.
RECURSIVE ExpectedPayload(_, _, _)
ExpectedPayload(files, base, readable) ==
    IF files = <<>> THEN <<>>
    ELSE LET n == Len(files)
         IN ExpectedPayload(SubSeq(files, 1, n - 1), base, readable)
                \o (IF files[n] \in readable THEN ExpectedBlock(files[n], base) ELSE <<>>)

\* C21: the payload of an export is the concatenation, in the order of the
\* file sequence, of one block per file that can be opened and decoded;
\* a block is a header naming the path relative to base_dir (the absolute
\* path when the file is not beneath base_dir) and the exact contents
\* between two fences; a file that cannot be read contributes nothing and
\* does not stop the export of the others.
C21_Payload ==
    \A i \in 1..Len(app.collections) :
        \A base \in {d \in fs : is_dir(d)}, readable \in SUBSET {f \in fs : is_file(f)} :
            LET files == app.collections[i].files
            IN /\ selection_output(files, base, readable)
                      = ExpectedPayload(files, base, readable)
               /\ collection_output(files, base, readable)
                      = ExpectedPayload(files, base, readable)

\* The selection of three files, one in each directory, was exported: for
\* a program launched in the second directory the first file is not
\* beneath base_dir.
C21_Witness ==
    /\ app.collections # <<>>
    /\ Len(app.collections[1].files) = 3
    /\ Range(app.collections[1].files) = {Root + 1, Root + 3, Root + 5}
    /\ app.footer_message = <<"Copied to clipboard!">>
    /\ app.exit = "none"

\* What the iteration that reads key dispatches, before any tick: the
\* help overlay is closed, or rename mode takes the key, or the match on
\* key.code runs.
Dispatched(a, key) ==
    IF a.show_help THEN [a EXCEPT !.show_help = FALSE]
    ELSE IF a.renaming_collection THEN rename_key(a, key)
    ELSE IF /\ a.focused_pane = "SelectedFilesPane"
            /\ key \in {"j", "Down"}
            /\ a.collections = <<>>
    THEN a
    ELSE key_match(a, key, <<>>, TRUE)

\* The iteration that reads key returns from run_app.
Quits(a, key) == ~a.show_help /\ ~a.renaming_collection /\ key = "q"

\* C22 as stated: every iteration of run_app that does not quit calls
\* decrement_message_counter once, also when it handles a key under the
\* help overlay, in rename mode, or in the SelectedFiles pane with an
\* empty store.
C22_TickEveryIteration ==
    Waiting =>
        \A key \in Keys :
            ~Quits(app, key) => run_app(app, key, <<>>, TRUE) = tick(Dispatched(app, key))

\* A notifying command has just run.
Notified(a) == a.footer_message # <<>> /\ a.message_counter = 5

\* C23: the countdown of the message.  Every notifying command (export of
\* the selection, export of a collection, confirm_rename, cancel_rename)
\* sets footer_message and message_counter = 5; a tick with counter > 0
\* decrements it and clears the message exactly when it reaches 0; a tick
\* with counter 0 changes nothing; in every reachable state
\* 0 <= message_counter <= 5, and footer_message is present if and only
\* if message_counter > 0.
C23_MessageCountdown ==
    LET ticked == decrement_message_counter(app)
    IN /\ app.message_counter \in 0..5
       /\ app.footer_message # <<>> <=> app.message_counter > 0
       /\ IF app.message_counter > 0
          THEN /\ ticked.message_counter = app.message_counter - 1
               /\ ticked.footer_message = <<>> <=> ticked.message_counter = 0
               /\ ticked.message_counter > 0 => ticked.footer_message = app.footer_message
          ELSE ticked = app
       /\ \A all_files \in collect_all_files(app.selected_items) :
              Notified(copy_selected_items_to_clipboard(app, all_files, TRUE))
       /\ app.collections # <<>> /\ ~Panicked(app)
              => Notified(copy_selected_collection_to_clipboard(app, TRUE))
       /\ app.renaming_collection
              => Notified(confirm_rename(app)) /\ Notified(cancel_rename(app))

\* The message of a cancelled rename is in its last cycle.
C23_Witness ==
    /\ app.footer_message = <<"Rename canceled.">>
    /\ app.message_counter = 1
    /\ app.exit = "none"

\* Keys that run no notifying command, in any mode.
QuietKeys == {"x", "?", "r"}

\* C24 as stated: once a message is set, five further iterations of the
\* event loop clear it, whatever keys they read, when none of them runs a
\* notifying command.
C24_MessageCleared ==
    Waiting /\ app.footer_message # <<>> =>
        \A keys \in [1..5 -> QuietKeys] : Type(app, keys).footer_message = <<>>

\* C25 as stated: the file list an export of the selection builds holds
\* no path twice, for every selection, also one that holds a directory
\* and a file or subdirectory beneath it.
C25_NoDuplicates ==
    \A all_files \in collect_all_files(app.selected_items) :
        \A i, j \in 1..Len(all_files) : i # j => all_files[i] # all_files[j]

\* No two collections have the same name.
UniqueNames(a) ==
    \A i, j \in 1..Len(a.collections) :
        i # j => a.collections[i].name # a.collections[j].name

\* Collection i is named "Collection i", for every i.
NamedByPosition(a) ==
    \A i \in 1..Len(a.collections) : a.collections[i].name = DefaultName(i)

\* C26 as stated: after any sequence of exports and deletions, without
\* renames, no two collections have the same name.
C26_UniqueNames == UniqueNames(app)

\* C26, amended: as long as no collection is deleted, the names are
\* unique.  In a store whose i-th collection is named "Collection i" (the
\* empty store the program starts with is one), every step that deletes
\* no collection leaves a store of that kind, in which no two collections
\* have the same name.
C26_UniqueWithoutDeletion ==
    [][NamedByPosition(app) /\ Len(app'.collections) >= Len(app.collections)
           => NamedByPosition(app') /\ UniqueNames(app')]_vars

\* Two exports without a deletion: "Collection 1" and "Collection 2".
C26_Witness ==
    /\ Len(app.collections) = 2
    /\ app.collections[1].name = DefaultName(1)
    /\ app.collections[2].name = DefaultName(2)
    /\ app.selected_collection_index = 0
    /\ app.footer_message = <<"Copied to clipboard!">>
    /\ app.message_counter = MessageCycles - 1

\* C27 as stated: all_selected is true if and only if the listing is not
\* empty and every entry of it is selected, in every reachable state.
C27_FlagConsistent ==
    app.all_selected
        <=> (app.directory_entries # <<>> /\ is_current_dir_all_selected(app))

\* C28 as stated: an export of a selection that expands to no files
\* creates no collection and does not write the collections file.
C28_NoEmptyCollection ==
    <<>> \in collect_all_files(app.selected_items) =>
        LET after == copy_selected_items_to_clipboard(ForeignStore(app), <<>>, TRUE)
        IN /\ after.collections = app.collections
           /\ after.store = ForeignStore(app).store

====
